---- MODULE Spec2Model ----
(***************************************************************************)
(* Model of the alarm-series screen (src/app/(tabs)/series.tsx): the       *)
(* persisted collection, the in-memory list, the editor's draft and the    *)
(* playback timer, which all live in one React component.                  *)
(*                                                                         *)
(* Objects carry a `ref` field: React compares hook dependencies and       *)
(* state updates by reference (Object.is), so two objects with equal       *)
(* fields are still different objects.  JSON text carries no reference.    *)
(***************************************************************************)
EXTENDS Integers, Sequences, FiniteSets, TLC

\* ------------------------------------------------------------- bounds
MaxSeries == 2      \* series in the list: at the start, and the cap of New
MaxSteps == 2       \* steps in a series: at the start, and the cap of Add Step
MaxGestures == 3    \* buttons pressed and texts typed in one run
MaxAuthoring == 4   \* the same, in a run that only authors a series and plays it
MaxBuilding == 5    \* the same, in a run that builds a series, saves it and plays it
MaxAdvances == 3    \* times the clock advances in one run
ClockJump == 60000  \* milliseconds by which the clock advances at a time
MaxPending == 2     \* storage calls awaited at a time
MaxFaults == 1      \* storage or haptic calls that fail in one run
MaxTicks == 5       \* callbacks of the stopwatch's interval in one run
MaxSplits == 3      \* splits recorded at a time

\* -------------------------------------------------- program constants
TickPeriod == 16
HapticDelay == 500
DefaultDuration == 60000
MsPerMinute == 60000
MsPerSecond == 1000
StopwatchStep == 10

\* ------------------------------------------------------------- values
\* useState<AlarmSeries | null>(null) and useState<AlarmStep | null>(null):
\* null is a record of the same shape whose ref no object has.
NullSeries == [ref |-> 0, id |-> -1, name |-> "", steps |-> <<>>]
NullStep == [ref |-> 0, id |-> -1, duration |-> 0, name |-> ""]

\* A variant of the item of a removed key: the text of an empty list.
EmptyListItem == [present |-> TRUE, text |-> "list", data |-> <<>>]

\* AsyncStorage.getItem(STORAGE_KEY) of a key never written: null. An item that
\* is present is a text: "list" when it is the JSON of an array of series (the
\* array is data), "value" when it is the JSON of anything else, "garbage" when
\* it is no JSON at all.
NoItem == [present |-> FALSE, text |-> "list", data |-> <<>>]

EmptySeriesMsg == "Please add steps to the series first"
CompleteMsg == "All steps have been completed!"

Max(a, b) == IF a >= b THEN a ELSE b

RECURSIVE FindIndexFrom(_, _, _)
FindIndexFrom(steps, id, i) ==
  IF i > Len(steps) THEN 0
  ELSE IF steps[i].id = id THEN i
  ELSE FindIndexFrom(steps, id, i + 1)

\* Array.prototype.findIndex(x => x.id === id), 1-based; 0 stands for -1.
FindIndex(steps, id) == FindIndexFrom(steps, id, 1)

VARIABLES
  now,            \* Date.now()
  series,         \* useState<AlarmSeries[]>
  currentSeries,  \* useState<AlarmSeries | null>: the draft AND the series played
  isEditing,
  isPlaying,
  currentStep,
  remainingTime,
  modalVisible,
  interval,       \* TRUE while the effect's setInterval is armed
  startTime,      \* the armed interval's startTime (0 when none is armed)
  armed,          \* the number of setInterval timers not cleared yet
  hapticTimers,   \* due times of the setTimeout callbacks of playAlarm
  stored,         \* AsyncStorage item under STORAGE_KEY
  pending,        \* storage calls awaited by a handler, oldest first
  lastAlert,      \* message of the Alert dialog on screen ("" when none is)
  crashed,        \* rendering the screen threw: the screen is gone
  session,        \* history: the series handed to the latest handlePlaySeries
  alarms,         \* history: the steps playAlarm was called for since then
  completions,    \* history: 'Series Complete' alerts since then
  stopped,        \* history: the Stop button was pressed since then
  restarted,      \* history: that play was pressed when a session had completed
  gestures,       \* history: the user's gestures so far
  faults,         \* history: the platform calls that failed so far
  isRunning,      \* the stopwatch screen: useState(false)
  time,           \* the stopwatch screen: useState(0), milliseconds
  splits,         \* the stopwatch screen: useState<Split[]>([])
  lastSplitTime   \* the stopwatch screen: useState(0)

vars == <<now, series, currentSeries, isEditing, isPlaying, currentStep,
          remainingTime, modalVisible, interval, startTime, armed,
          hapticTimers, stored, pending, lastAlert, crashed, session, alarms, completions,
          stopped, restarted, gestures, faults, isRunning, time, splits,
          lastSplitTime>>

clockVars == <<now>>
storeVars == <<series, stored, pending>>
editVars == <<isEditing, modalVisible>>
playVars == <<isPlaying, currentStep, remainingTime>>
timerVars == <<interval, startTime, armed>>
histVars == <<session, alarms, completions, stopped, restarted>>
stopwatchVars == <<isRunning, time, splits, lastSplitTime>>

\* ------------------------------------------------------ object identity
SeqRange(s) == {s[i] : i \in 1..Len(s)}

\* The series objects some variable or some suspended handler still holds.
LiveSeries ==
  SeqRange(series) \cup {currentSeries, session}
    \cup UNION {SeqRange(p.list) \cup {p.item} : p \in SeqRange(pending)}

LiveSteps == {currentStep} \cup UNION {SeqRange(s.steps) : s \in LiveSeries}

SeriesRefs == {o.ref : o \in LiveSeries}
StepRefs == {o.ref : o \in LiveSteps}

\* The reference of a newly allocated object: one no live object has.
FreshRef(used) ==
  CHOOSE n \in 1..(Cardinality(used) + 1) :
    /\ n \notin used
    /\ \A m \in 1..(n - 1) : m \in used

\* ------------------------------------------------------- timer effect
\* A variant of the cleanup that returns without clearing the interval.
CleanupWithoutClear == armed

\* The effect's cleanup, if (interval) clearInterval(interval): the timers
\* left armed once it has run.
CleanupInterval == IF interval THEN armed - 1 ELSE armed

\* useEffect(..., [isPlaying, currentStep, currentSeries]): when a dependency
\* changed (by reference) the cleanup clears the interval and the effect body
\* runs again, arming a new interval with startTime = Date.now().
TimerEffect ==
  IF <<isPlaying', currentStep', currentSeries'>> # <<isPlaying, currentStep, currentSeries>>
  THEN /\ interval' = (isPlaying' /\ currentStep' # NullStep)
       /\ startTime' = IF isPlaying' /\ currentStep' # NullStep THEN now ELSE 0
       /\ armed' = CleanupInterval + (IF isPlaying' /\ currentStep' # NullStep THEN 1 ELSE 0)
  ELSE UNCHANGED timerVars

\* ----------------------------------------------------------- playback
\* A variant of the play button that makes the series current before it looks
\* at its steps.
handlePlaySeriesBeforeValidation(s) ==
  /\ ~modalVisible
  /\ currentSeries' = s
  /\ IF Len(s.steps) = 0
     THEN /\ lastAlert' = EmptySeriesMsg
          /\ UNCHANGED <<playVars, histVars>>
     ELSE /\ currentStep' = s.steps[1]
          /\ remainingTime' = s.steps[1].duration
          /\ isPlaying' = TRUE
          /\ session' = s
          /\ alarms' = <<>>
          /\ completions' = 0
          /\ stopped' = FALSE
          /\ restarted' = (completions >= 1 /\ ~isPlaying)
          /\ UNCHANGED lastAlert
  /\ UNCHANGED <<clockVars, crashed, storeVars, editVars, hapticTimers>>
  /\ TimerEffect

\* The play button of a card of the list; the list is behind the modal.
handlePlaySeries(s) ==
  /\ ~modalVisible
  /\ IF Len(s.steps) = 0
     THEN /\ lastAlert' = EmptySeriesMsg
          /\ UNCHANGED <<currentSeries, playVars, timerVars, histVars>>
     ELSE /\ currentSeries' = s
          /\ currentStep' = s.steps[1]
          /\ remainingTime' = s.steps[1].duration
          /\ isPlaying' = TRUE
          /\ session' = s
          /\ alarms' = <<>>
          /\ completions' = 0
          /\ stopped' = FALSE
          /\ restarted' = (completions >= 1 /\ ~isPlaying)
          /\ TimerEffect
          /\ UNCHANGED lastAlert
  /\ UNCHANGED <<clockVars, crashed, storeVars, editVars, hapticTimers>>

PlaySeries == \E i \in 1..Len(series) : handlePlaySeries(series[i])

\* The Stop button, rendered while isPlaying && currentStep.
handleStopSeries ==
  /\ ~modalVisible
  /\ isPlaying /\ currentStep # NullStep
  /\ isPlaying' = FALSE
  /\ currentStep' = NullStep
  /\ remainingTime' = 0
  /\ stopped' = TRUE
  /\ UNCHANGED <<clockVars, crashed, storeVars, editVars, currentSeries, hapticTimers,
                 lastAlert, session, alarms, completions, restarted>>
  /\ TimerEffect

\* The callback of setInterval(..., 16): the first call comes no sooner than
\* 16 ms after the effect armed the interval, later ones at any delay.
\* hapticOk: whether the first Haptics.notificationAsync of playAlarm resolves
\* (then the repeat is scheduled) or rejects (then the catch logs it).
Tick(hapticOk) ==
  /\ interval
  /\ now - startTime >= TickPeriod
  /\ LET elapsed == now - startTime
         duration == currentStep.duration
         newRemaining == Max(0, duration - elapsed)
         currentIndex == IF currentSeries = NullSeries THEN 0
                         ELSE FindIndex(currentSeries.steps, currentStep.id)
     IN IF newRemaining <= 0
        THEN /\ alarms' = Append(alarms, currentStep)
             /\ hapticTimers' = IF hapticOk THEN Append(hapticTimers, now + HapticDelay)
                                ELSE hapticTimers
             /\ IF currentIndex >= 1 /\ currentIndex < Len(currentSeries.steps)
                THEN /\ currentStep' = currentSeries.steps[currentIndex + 1]
                     /\ remainingTime' = currentSeries.steps[currentIndex + 1].duration
                     /\ UNCHANGED <<isPlaying, completions, lastAlert>>
                ELSE /\ isPlaying' = FALSE
                     /\ currentStep' = NullStep
                     /\ remainingTime' = 0
                     /\ completions' = completions + 1
                     /\ lastAlert' = CompleteMsg
             /\ UNCHANGED currentSeries
             \* clearInterval(interval), then the effect if a dependency changed
             /\ IF <<isPlaying', currentStep'>> # <<isPlaying, currentStep>>
                THEN TimerEffect
                ELSE interval' = FALSE /\ startTime' = 0 /\ armed' = armed - 1
        ELSE /\ remainingTime' = newRemaining
             /\ UNCHANGED <<isPlaying, currentStep, currentSeries, timerVars,
                            alarms, completions, hapticTimers, lastAlert>>
  /\ UNCHANGED <<clockVars, crashed, storeVars, editVars, session, stopped, restarted>>

TimerTick == Tick(TRUE)

\* A variant of the callback in which the rejected haptic call is not caught:
\* the callback ends at playAlarm(), after clearInterval(interval).
TimerTickHapticThrows ==
  /\ interval
  /\ now - startTime >= TickPeriod
  /\ IF Max(0, currentStep.duration - (now - startTime)) <= 0
     THEN /\ alarms' = Append(alarms, currentStep)
          /\ interval' = FALSE /\ startTime' = 0 /\ armed' = armed - 1
          /\ UNCHANGED <<playVars, currentSeries, completions, hapticTimers, lastAlert>>
     ELSE /\ remainingTime' = Max(0, currentStep.duration - (now - startTime))
          /\ UNCHANGED <<isPlaying, currentStep, currentSeries, timerVars,
                         alarms, completions, hapticTimers, lastAlert>>
  /\ UNCHANGED <<clockVars, crashed, storeVars, editVars, session, stopped, restarted>>

TimerTickHapticFails == Tick(FALSE)

\* The setTimeout(..., 500) callback of playAlarm: the repeated haptic.
DelayedHaptic ==
  /\ hapticTimers # <<>>
  /\ now >= Head(hapticTimers)
  /\ hapticTimers' = Tail(hapticTimers)
  /\ UNCHANGED <<clockVars, crashed, storeVars, editVars, currentSeries, playVars, timerVars, lastAlert, histVars>>

\* Time passes: up to the time the next setTimeout callback is due, which then
\* runs before more time passes. The interval's callback may come late.
AdvanceClock ==
  /\ now + ClockJump <= (MaxAdvances + 1) * ClockJump
  /\ \A i \in 1..Len(hapticTimers) : now < hapticTimers[i]
  /\ now' = IF hapticTimers # <<>> /\ Head(hapticTimers) < now + ClockJump
            THEN Head(hapticTimers)
            ELSE now + ClockJump
  /\ UNCHANGED <<storeVars, editVars, currentSeries, playVars, timerVars,
                 hapticTimers, lastAlert, crashed, histVars>>

\* ------------------------------------------------------------- editor
\* Texts the user types; a text is the sequence of its characters.
SeriesNames == {"A"}
StepNames == {"x"}
MinuteTexts == {<<>>, <<"-", "1">>}
SecondTexts == {<<"1">>}

DigitValue(c) ==
  CASE c = "0" -> 0 [] c = "1" -> 1 [] c = "2" -> 2 [] c = "3" -> 3 [] c = "4" -> 4
    [] c = "5" -> 5 [] c = "6" -> 6 [] c = "7" -> 7 [] c = "8" -> 8 [] c = "9" -> 9
    [] OTHER -> -1

RECURSIVE ParseDigits(_, _, _, _)
\* the digits of text from position i on, up to the first other character
ParseDigits(text, i, seen, acc) ==
  IF i > Len(text) \/ DigitValue(text[i]) < 0
  THEN [nan |-> ~seen, value |-> acc]
  ELSE ParseDigits(text, i + 1, TRUE, 10 * acc + DigitValue(text[i]))

\* parseInt(text): an optional sign, then digits; NaN when no digit follows.
ParseInt(text) ==
  IF Len(text) >= 1 /\ text[1] = "-"
  THEN LET p == ParseDigits(text, 2, FALSE, 0) IN [nan |-> p.nan, value |-> 0 - p.value]
  ELSE IF Len(text) >= 1 /\ text[1] = "+"
  THEN ParseDigits(text, 2, FALSE, 0)
  ELSE ParseDigits(text, 1, FALSE, 0)

\* parseInt(text) || 0
ParseIntOrZero(text) == IF ParseInt(text).nan THEN 0 ELSE ParseInt(text).value

\* Math.floor(a / b) for b > 0: \div rounds toward minus infinity, as Math.floor does.
FloorDiv(a, b) == a \div b

\* a % b of JavaScript: the remainder has the sign of a
Remainder(a, b) == IF a >= 0 THEN a % b ELSE 0 - ((0 - a) % b)

\* A variant of the default name that numbers the step by the count of the
\* steps before it.
StepNameFromCount(n) == "Step " \o ToString(n - 1)

\* `Step ${n}`
StepName(n) == "Step " \o ToString(n)

\* onChangeText of the series-name input of the modal.
RenameSeries(text) ==
  /\ modalVisible
  /\ currentSeries # NullSeries
  /\ currentSeries' = [currentSeries EXCEPT !.name = text, !.ref = FreshRef(SeriesRefs)]
  /\ UNCHANGED <<clockVars, crashed, storeVars, editVars, playVars, hapticTimers, lastAlert, histVars>>
  /\ TimerEffect

\* The Add Step button of the modal.
handleAddStep ==
  /\ modalVisible
  /\ currentSeries # NullSeries
  /\ Len(currentSeries.steps) < MaxSteps
  /\ LET newStep == [ref |-> FreshRef(StepRefs), id |-> now, duration |-> DefaultDuration,
                     name |-> StepName(Len(currentSeries.steps) + 1)]
     IN currentSeries' = [currentSeries EXCEPT !.steps = Append(currentSeries.steps, newStep),
                                               !.ref = FreshRef(SeriesRefs)]
  /\ UNCHANGED <<clockVars, crashed, storeVars, editVars, playVars, hapticTimers, lastAlert, histVars>>
  /\ TimerEffect

RECURSIVE MapUpdate(_, _, _, _, _)
\* steps.map(step => step.id === stepId ? { ...step, ...updates } : step)
MapUpdate(steps, stepId, field, value, used) ==
  IF steps = <<>> THEN <<>>
  ELSE IF Head(steps).id = stepId
  THEN LET r == FreshRef(used)
           updated == IF field = "name"
                      THEN [Head(steps) EXCEPT !.name = value, !.ref = r]
                      ELSE [Head(steps) EXCEPT !.duration = value, !.ref = r]
       IN <<updated>> \o MapUpdate(Tail(steps), stepId, field, value, used \cup {r})
  ELSE <<Head(steps)>> \o MapUpdate(Tail(steps), stepId, field, value, used)

handleUpdateStep(stepId, field, value) ==
  /\ currentSeries # NullSeries
  /\ currentSeries' = [currentSeries EXCEPT
                         !.steps = MapUpdate(currentSeries.steps, stepId, field, value, StepRefs),
                         !.ref = FreshRef(SeriesRefs)]
  /\ UNCHANGED <<clockVars, crashed, storeVars, editVars, playVars, hapticTimers, lastAlert, histVars>>
  /\ TimerEffect

\* The three inputs of a rendered step item of the draft.
EditStepName ==
  /\ modalVisible
  /\ \E i \in 1..Len(currentSeries.steps) : \E text \in StepNames :
       handleUpdateStep(currentSeries.steps[i].id, "name", text)

\* A variant of the minutes input that keeps the seconds of the step.
onChangeMinutesKeepingSeconds(i, text) ==
  LET minutes == ParseIntOrZero(text)
      rest == Remainder(currentSeries.steps[i].duration, MsPerMinute)
  IN handleUpdateStep(currentSeries.steps[i].id, "duration", minutes * MsPerMinute + rest)

\* onChangeText of the minutes input of the i-th step item.
onChangeMinutes(i, text) ==
  LET minutes == ParseIntOrZero(text)
  IN handleUpdateStep(currentSeries.steps[i].id, "duration", minutes * MsPerMinute)

\* onChangeText of the seconds input of the i-th step item.
onChangeSeconds(i, text) ==
  LET seconds == ParseIntOrZero(text)
      minutes == FloorDiv(currentSeries.steps[i].duration, MsPerMinute)
  IN handleUpdateStep(currentSeries.steps[i].id, "duration",
                      minutes * MsPerMinute + seconds * MsPerSecond)

EditStepMinutes ==
  /\ modalVisible
  /\ \E i \in 1..Len(currentSeries.steps) : \E text \in MinuteTexts : onChangeMinutes(i, text)

EditStepSeconds ==
  /\ modalVisible
  /\ \E i \in 1..Len(currentSeries.steps) : \E text \in SecondTexts : onChangeSeconds(i, text)

\* The orders DraggableFlatList can hand to onDragEnd: the same step objects,
\* each once, the unchanged order included.
StepOrders(steps) ==
  {[i \in 1..Len(steps) |-> steps[f[i]]] :
     f \in {g \in [1..Len(steps) -> 1..Len(steps)] :
              \A a, b \in 1..Len(steps) : a # b => g[a] # g[b]}}

handleReorderSteps(steps) ==
  /\ currentSeries # NullSeries
  /\ currentSeries' = [currentSeries EXCEPT !.steps = steps, !.ref = FreshRef(SeriesRefs)]
  /\ UNCHANGED <<clockVars, crashed, storeVars, editVars, playVars, hapticTimers, lastAlert, histVars>>
  /\ TimerEffect

DragEnd ==
  /\ modalVisible
  /\ Len(currentSeries.steps) >= 1
  /\ \E steps \in StepOrders(currentSeries.steps) : handleReorderSteps(steps)

\* The pencil button of a card of the list.
handleEditSeries(s) ==
  /\ ~modalVisible
  /\ currentSeries' = s
  /\ modalVisible' = TRUE
  /\ UNCHANGED <<clockVars, crashed, storeVars, isEditing, playVars, hapticTimers, lastAlert, histVars>>
  /\ TimerEffect

EditSeries == \E i \in 1..Len(series) : handleEditSeries(series[i])

\* The Cancel button of the modal, and the modal's onRequestClose.
CancelEdit ==
  /\ modalVisible
  /\ modalVisible' = FALSE
  /\ UNCHANGED <<clockVars, crashed, storeVars, isEditing, currentSeries, playVars, timerVars, hapticTimers, lastAlert, histVars>>

\* -------------------------------------------------------------- store
CreateFailedMsg == "Failed to create new series. Please try again."
SaveFailedMsg == "Failed to save series. Please try again."
DeleteFailedMsg == "Failed to delete series. Please try again."
ClearFailedMsg == "Failed to clear series. Please try again."
LoadFailedMsg == "Failed to load series. Please restart the app."

\* A variant of the text of steps that leaves the names out.
StringifyStepsWithoutNames(steps) ==
  [i \in 1..Len(steps) |->
     [id |-> steps[i].id, duration |-> steps[i].duration, name |-> ""]]

\* JSON.stringify(list): the fields of each series and step, no object identity.
StringifySteps(steps) ==
  [i \in 1..Len(steps) |->
     [id |-> steps[i].id, duration |-> steps[i].duration, name |-> steps[i].name]]

\* A variant of the text of a collection that leaves the steps out.
StringifyWithoutSteps(list) ==
  [present |-> TRUE, text |-> "list",
   data |-> [i \in 1..Len(list) |->
               [id |-> list[i].id, name |-> list[i].name, steps |-> <<>>]]]

Stringify(list) ==
  [present |-> TRUE, text |-> "list",
   data |-> [i \in 1..Len(list) |->
               [id |-> list[i].id, name |-> list[i].name,
                steps |-> StringifySteps(list[i].steps)]]]

RECURSIVE ParseSteps(_, _)
ParseSteps(data, used) ==
  IF data = <<>> THEN <<>>
  ELSE LET r == FreshRef(used)
       IN <<[ref |-> r, id |-> Head(data).id, duration |-> Head(data).duration,
             name |-> Head(data).name]>> \o ParseSteps(Tail(data), used \cup {r})

RECURSIVE ParseList(_, _, _)
\* JSON.parse(text): every series and step of the text is a new object.
ParseList(data, usedSeries, usedSteps) ==
  IF data = <<>> THEN <<>>
  ELSE LET r == FreshRef(usedSeries)
           steps == ParseSteps(Head(data).steps, usedSteps)
       IN <<[ref |-> r, id |-> Head(data).id, name |-> Head(data).name, steps |-> steps]>>
            \o ParseList(Tail(data), usedSeries \cup {r},
                         usedSteps \cup {s.ref : s \in SeqRange(steps)})

\* A handler suspended at an await of an AsyncStorage call, with what its
\* continuation holds: the list it computed, the series it created or saves.
Suspended(op, list, item) == [op |-> op, list |-> list, item |-> item]

CanAwait == Len(pending) < MaxPending

\* The New button: everything before `await AsyncStorage.setItem`.
handleCreateNewSeries ==
  /\ ~modalVisible
  /\ CanAwait
  /\ Len(series) < MaxSeries
  /\ LET newSeries == [ref |-> FreshRef(SeriesRefs), id |-> now, name |-> "New Series",
                       steps |-> <<>>]
         updatedSeries == Append(series, newSeries)
     IN pending' = Append(pending, Suspended("create", updatedSeries, newSeries))
  /\ UNCHANGED <<clockVars, crashed, series, stored, editVars, currentSeries, playVars, timerVars, hapticTimers, lastAlert, histVars>>

\* updatedSeries of handleSaveSeries: the draft replaces the first series of
\* its id, or is pushed.
Upsert(list, draft) ==
  LET existingIndex == FindIndex(list, draft.id)
  IN IF existingIndex >= 1 THEN [list EXCEPT ![existingIndex] = draft]
     ELSE Append(list, draft)

\* The Save button of the modal: up to the await inside saveSeries.
handleSaveSeries ==
  /\ modalVisible
  /\ CanAwait
  /\ currentSeries # NullSeries
  /\ pending' = Append(pending, Suspended("save", Upsert(series, currentSeries), currentSeries))
  /\ UNCHANGED <<clockVars, crashed, series, stored, editVars, currentSeries, playVars, timerVars, hapticTimers, lastAlert, histVars>>

\* series.filter(s => s.id !== seriesId)
RECURSIVE FilterOut(_, _)
FilterOut(list, id) ==
  IF list = <<>> THEN <<>>
  ELSE IF Head(list).id # id THEN <<Head(list)>> \o FilterOut(Tail(list), id)
  ELSE FilterOut(Tail(list), id)

\* The trash button of a card of the list: up to `await AsyncStorage.setItem`.
handleDeleteSeries(seriesId) ==
  /\ ~modalVisible
  /\ CanAwait
  /\ LET updatedSeries == FilterOut(series, seriesId)
     IN /\ series' = updatedSeries
        /\ pending' = Append(pending, Suspended("delete", updatedSeries,
                                                 [NullSeries EXCEPT !.id = seriesId]))
  /\ isEditing' = FALSE
  /\ currentSeries' = NullSeries
  /\ UNCHANGED <<clockVars, crashed, stored, modalVisible, playVars, hapticTimers, lastAlert, histVars>>
  /\ TimerEffect

DeleteSeries == \E i \in 1..Len(series) : handleDeleteSeries(series[i].id)

\* The onPress of the trash button of the step item of id stepId: up to the
\* await inside saveSeries.
DeleteStepById(stepId) ==
  /\ modalVisible
  /\ CanAwait
  /\ currentSeries # NullSeries
  /\ LET updatedSteps == FilterOut(currentSeries.steps, stepId)
         updatedSeries == [currentSeries EXCEPT !.steps = updatedSteps,
                                                !.ref = FreshRef(SeriesRefs)]
         updatedSeriesList == [k \in 1..Len(series) |->
                                 IF series[k].id = currentSeries.id THEN updatedSeries
                                 ELSE series[k]]
     IN /\ currentSeries' = updatedSeries
        /\ pending' = Append(pending, Suspended("saveStep", updatedSeriesList, NullSeries))
  /\ UNCHANGED <<clockVars, crashed, series, stored, editVars, playVars, hapticTimers,
                 lastAlert, histVars>>
  /\ TimerEffect

\* The trash button of the i-th step item the modal renders.
DeleteStep(i) == DeleteStepById(currentSeries.steps[i].id)

RemoveStep == \E i \in 1..Len(currentSeries.steps) : DeleteStep(i)

\* The Clear All button: up to `await AsyncStorage.removeItem`.
clearAllSeries ==
  /\ ~modalVisible
  /\ CanAwait
  /\ pending' = Append(pending, Suspended("clear", <<>>, NullSeries))
  /\ UNCHANGED <<clockVars, crashed, series, stored, editVars, currentSeries, playVars, timerVars, hapticTimers, lastAlert, histVars>>

\* The oldest awaited storage call settles and its handler runs to its end.
\* ok: the call resolved; otherwise it rejected and the handler's catch ran.
Settle(ok) ==
  /\ pending # <<>>
  /\ LET p == Head(pending)
     IN /\ pending' = Tail(pending)
        /\ CASE p.op = "load" ->
                  /\ IF ok /\ stored.present /\ stored.text = "list"
                     THEN series' = ParseList(stored.data, SeriesRefs, StepRefs)
                     ELSE UNCHANGED series
                  \* JSON.parse throws on a text that is no JSON: the catch
                  /\ lastAlert' = IF ok /\ ~(stored.present /\ stored.text = "garbage")
                                  THEN lastAlert ELSE LoadFailedMsg
                  \* setSeries(parsed) of a value that is no array of series:
                  \* the render's series.map, or series.steps of an element, throws
                  /\ crashed' = (ok /\ stored.present /\ stored.text = "value")
                  /\ UNCHANGED <<stored, currentSeries, isEditing, modalVisible>>
             [] p.op = "create" ->
                  /\ IF ok
                     THEN /\ stored' = Stringify(p.list)
                          /\ series' = p.list
                          /\ currentSeries' = p.item
                          /\ isEditing' = TRUE
                          /\ UNCHANGED lastAlert
                     ELSE /\ lastAlert' = CreateFailedMsg
                          /\ UNCHANGED <<stored, series, currentSeries, isEditing>>
                  /\ UNCHANGED <<modalVisible, crashed>>
             [] p.op = "save" ->
                  /\ IF ok
                     THEN stored' = Stringify(p.list) /\ series' = p.list /\ UNCHANGED lastAlert
                     ELSE lastAlert' = SaveFailedMsg /\ UNCHANGED <<stored, series>>
                  /\ modalVisible' = FALSE
                  /\ UNCHANGED <<currentSeries, isEditing, crashed>>
             [] p.op = "saveStep" ->
                  /\ IF ok
                     THEN stored' = Stringify(p.list) /\ series' = p.list /\ UNCHANGED lastAlert
                     ELSE lastAlert' = SaveFailedMsg /\ UNCHANGED <<stored, series>>
                  /\ UNCHANGED <<currentSeries, isEditing, modalVisible, crashed>>
             [] p.op = "delete" ->
                  /\ IF ok
                     THEN stored' = Stringify(p.list) /\ UNCHANGED lastAlert
                     ELSE lastAlert' = DeleteFailedMsg /\ UNCHANGED stored
                  /\ UNCHANGED <<series, currentSeries, isEditing, modalVisible, crashed>>
             [] p.op = "clear" ->
                  /\ IF ok
                     THEN /\ stored' = NoItem
                          /\ series' = <<>>
                          /\ currentSeries' = NullSeries
                          /\ isEditing' = FALSE
                          /\ UNCHANGED lastAlert
                     ELSE /\ lastAlert' = ClearFailedMsg
                          /\ UNCHANGED <<stored, series, currentSeries, isEditing>>
                  /\ UNCHANGED <<modalVisible, crashed>>
  /\ UNCHANGED <<isPlaying, currentStep, remainingTime>>
  /\ UNCHANGED <<clockVars, hapticTimers, histVars>>
  /\ TimerEffect

StorageSettles == Settle(TRUE)

StorageFails == Settle(FALSE)

\* ------------------------------------------------------ specification
\* The collections the list can hold when a run starts: up to MaxSeries series
\* created at different milliseconds, each with up to MaxSteps steps added at
\* different milliseconds, a step's duration left at the default or set to 0.
StartDurations == {0, DefaultDuration}

StepData(seriesNo, k, duration) ==
  [id |-> 10 * seriesNo + k, duration |-> duration, name |-> StepName(k)]

StepLists(seriesNo) ==
  UNION {{[k \in 1..n |-> StepData(seriesNo, k, d[k])] : d \in [1..n -> StartDurations]} :
           n \in 0..MaxSteps}

SeriesData(seriesNo, steps) == [id |-> seriesNo, name |-> "New Series", steps |-> steps]

Libraries ==
  UNION {{[i \in 1..n |-> SeriesData(i, l[i])] :
            l \in {f \in [1..n -> UNION {StepLists(i) : i \in 1..n}] :
                     \A i \in 1..n : f[i] \in StepLists(i)}} :
           n \in 0..MaxSeries}

\* The screen as mounted (the mount effect's loadSeries awaits getItem), or at
\* rest with a collection loaded, nothing being edited or played.
Init ==
  /\ now = ClockJump
  /\ currentSeries = NullSeries
  /\ isEditing = FALSE
  /\ isPlaying = FALSE
  /\ currentStep = NullStep
  /\ remainingTime = 0
  /\ modalVisible = FALSE
  /\ interval = FALSE
  /\ startTime = 0
  /\ armed = 0
  /\ hapticTimers = <<>>
  /\ lastAlert = ""
  /\ crashed = FALSE
  /\ session = NullSeries
  /\ alarms = <<>>
  /\ completions = 0
  /\ stopped = FALSE
  /\ restarted = FALSE
  /\ gestures = 0
  /\ faults = 0
  /\ isRunning = FALSE
  /\ time = 0
  /\ splits = <<>>
  /\ lastSplitTime = 0
  /\ \/ /\ series = <<>>
        /\ stored = NoItem
        /\ pending = <<Suspended("load", <<>>, NullSeries)>>
     \/ \E data \in Libraries :
          /\ stored = [present |-> TRUE, text |-> "list", data |-> data]
          /\ series = ParseList(data, {0}, {0})
          /\ pending = <<>>

\* The button of the Alert dialog on screen: the dialog goes away.
DismissAlert ==
  /\ lastAlert # ""
  /\ lastAlert' = ""
  /\ UNCHANGED <<clockVars, crashed, storeVars, editVars, currentSeries, playVars, timerVars, hapticTimers, histVars>>

\* A gesture of the user, within the run's budget of gestures. An Alert dialog
\* covers the screen until the user dismisses it.
User(A) ==
  /\ ~crashed
  /\ lastAlert = ""
  /\ gestures < MaxGestures
  /\ gestures' = gestures + 1
  /\ UNCHANGED <<faults, stopwatchVars>>
  /\ A

\* A callback the runtime delivers.
Runtime(A) == ~crashed /\ UNCHANGED <<gestures, faults, stopwatchVars>> /\ A

\* A callback in which a platform call fails, within the run's budget of faults.
Faulty(A) ==
  /\ ~crashed
  /\ faults < MaxFaults
  /\ faults' = faults + 1
  /\ UNCHANGED <<gestures, stopwatchVars>>
  /\ A

Next ==
  \/ Runtime(AdvanceClock)
  \/ Runtime(TimerTick)
  \/ Runtime(DelayedHaptic)
  \/ Runtime(StorageSettles)
  \/ Runtime(DismissAlert)
  \/ Faulty(TimerTickHapticFails)
  \/ Faulty(StorageFails)
  \/ User(PlaySeries)
  \/ User(handleStopSeries)
  \/ User(EditSeries)
  \/ User(CancelEdit)
  \/ User(\E text \in SeriesNames : RenameSeries(text))
  \/ User(handleAddStep)
  \/ User(EditStepName)
  \/ User(EditStepMinutes)
  \/ User(EditStepSeconds)
  \/ User(DragEnd)
  \/ User(RemoveStep)
  \/ User(handleSaveSeries)
  \/ User(handleCreateNewSeries)
  \/ User(DeleteSeries)
  \/ User(clearAllSeries)

Spec == Init /\ [][Next]_vars

\* A longer run of fewer gestures: the user edits step durations, adds steps,
\* saves and plays what was saved.
Author(A) ==
  /\ ~crashed
  /\ lastAlert = ""
  /\ gestures < MaxAuthoring
  /\ gestures' = gestures + 1
  /\ UNCHANGED <<faults, stopwatchVars>>
  /\ A

NextAuthor ==
  \/ Runtime(AdvanceClock)
  \/ Runtime(TimerTick)
  \/ Runtime(DelayedHaptic)
  \/ Runtime(StorageSettles)
  \/ Runtime(DismissAlert)
  \/ Author(EditSeries)
  \/ Author(handleAddStep)
  \/ Author(EditStepMinutes)
  \/ Author(EditStepSeconds)
  \/ Author(handleSaveSeries)
  \/ Author(PlaySeries)

SpecAuthor == Init /\ [][NextAuthor]_vars

\* ------------------------------------------------------------- claims
\* Playback is Running.
Running == isPlaying /\ currentStep # NullStep

IsPrefix(a, b) == Len(a) <= Len(b) /\ \A i \in 1..Len(a) : a[i] = b[i]

\* The position of the current step in the series handed to play (0: not in it).
SessionIndex ==
  IF \E i \in 1..Len(session.steps) : session.steps[i] = currentStep
  THEN CHOOSE i \in 1..Len(session.steps) : session.steps[i] = currentStep
  ELSE 0

\* A tick that finds the current step's duration elapsed.
BoundaryTick ==
  /\ TimerTick \/ TimerTickHapticFails
  /\ currentStep.duration - (now - startTime) <= 0

\* The series handed to play has not been deleted since.
SessionListed == \E i \in 1..Len(series) : series[i].id = session.id

PositiveSteps(s) ==
  Len(s.steps) >= 1 /\ \A i \in 1..Len(s.steps) : s.steps[i].duration > 0

\* C1: a playback of a series of N >= 1 steps of positive duration that is
\* neither stopped nor deleted calls playAlarm once per step, in the order of
\* the steps, and raises one 'Series Complete', after the N-th playAlarm; until
\* then it runs.
C1_EveryStepNotifiedThenComplete ==
  (session # NullSeries /\ ~stopped /\ SessionListed /\ PositiveSteps(session)) =>
    /\ IsPrefix(alarms, session.steps)
    /\ completions <= 1
    /\ (completions = 1 => alarms = session.steps)
    /\ (~isPlaying => completions = 1)

\* C2: while playback is Running the remaining time shown lies between 0 and
\* the current step's duration.
C2_RemainingWithinDuration ==
  Running => (0 <= remainingTime /\ remainingTime <= currentStep.duration)

\* C3: a tick that finds the duration of a step other than the session's last
\* elapsed, however late, calls playAlarm once and makes the session's next step
\* the current one, with its full duration remaining and its timer started now.
C3_LateTickAdvancesOneStep ==
  [][(BoundaryTick /\ SessionListed /\ SessionIndex >= 1
        /\ SessionIndex < Len(session.steps)) =>
       /\ Len(alarms') = Len(alarms) + 1
       /\ currentStep' = session.steps[SessionIndex + 1]
       /\ remainingTime' = currentStep'.duration
       /\ interval'
       /\ startTime' = now]_vars

\* C4: when a playback that was neither stopped nor deleted is over, playAlarm
\* has been called exactly once for each step of duration 0 of the series played.
C4_ZeroDurationStepsNotified ==
  (session # NullSeries /\ ~stopped /\ SessionListed /\ ~isPlaying) =>
    \A i \in 1..Len(session.steps) :
      session.steps[i].duration = 0 =>
        Cardinality({j \in 1..Len(alarms) : alarms[j] = session.steps[i]}) = 1

\* C5: once the Stop button was pressed no haptic is fired for the session:
\* neither by a tick nor by the repeat playAlarm scheduled.
C5_NoSinkCallAfterStop ==
  [][stopped => ~(DelayedHaptic \/ BoundaryTick)]_vars

\* Play is pressed on a series of the list that has no steps.
PlayOnEmpty ==
  \E i \in 1..Len(series) : Len(series[i].steps) = 0 /\ handlePlaySeries(series[i])

\* C6: play on a series without steps raises the validation message, and the
\* step that raises it changes neither the playing flag, the current step, the
\* remaining time, the current series nor the timer, and notifies nothing.
C6_EmptySeriesRejected ==
  [][/\ PlayOnEmpty => lastAlert' = EmptySeriesMsg
     /\ (lastAlert # EmptySeriesMsg /\ lastAlert' = EmptySeriesMsg) =>
          UNCHANGED <<isPlaying, currentStep, remainingTime, currentSeries, timerVars, hapticTimers, session, alarms, completions>>]_vars

\* Play on a series without steps was rejected while another one was playing.
C6_Witness == lastAlert = EmptySeriesMsg /\ Running /\ gestures >= 2

\* C7: while the draft is the series being played, the session still goes
\* through the steps the series had when play was pressed: the steps notified
\* are the first of them, the current step is the next, and the session
\* completes only when all were notified.
C7_SessionPlaysItsSnapshot ==
  (session # NullSeries /\ ~stopped /\ currentSeries.id = session.id) =>
    /\ IsPrefix(alarms, session.steps)
    /\ (Running => Len(alarms) < Len(session.steps)
                     /\ currentStep = session.steps[Len(alarms) + 1])
    /\ (completions >= 1 => alarms = session.steps)

\* C8: while the draft is another series than the one being played, the session
\* is not ended early and its current step is a step of the series played.
C8_EditingAnotherSeriesIsSafe ==
  (session # NullSeries /\ ~stopped /\ currentSeries # NullSeries
     /\ currentSeries.id # session.id) =>
    /\ (Running => SessionIndex >= 1)
    /\ (~isPlaying => completions = 1 /\ alarms = session.steps)

\* C9: pressing delete on the series that is playing leaves the engine Idle.
C9_DeletePlayingSeriesStops ==
  [][(Running /\ \E i \in 1..Len(series) :
                   series[i].id = session.id /\ handleDeleteSeries(series[i].id)) =>
       (~isPlaying' /\ currentStep' = NullStep)]_vars

\* An operation on the draft: all of it, the awaited save of the step's trash
\* button included.
DraftOperation ==
  \/ \E text \in SeriesNames : RenameSeries(text)
  \/ handleAddStep
  \/ EditStepName \/ EditStepMinutes \/ EditStepSeconds
  \/ DragEnd
  \/ RemoveStep
  \/ pending # <<>> /\ Head(pending).op = "saveStep" /\ (StorageSettles \/ StorageFails)

\* C10: rename, addStep, removeStep, updateStep and reorderSteps leave the
\* in-memory list and the persisted collection as they were.
C10_DraftOperationsLeaveStoreAlone ==
  [][DraftOperation => UNCHANGED <<series, stored>>]_vars

\* The awaited storage call of the handler named op settles, either way.
Settles(op) ==
  pending # <<>> /\ Head(pending).op = op /\ (StorageSettles \/ StorageFails)

\* An operation of the editor other than the commit: opening a series or a new
\* one (the awaited write of the New button included), an operation on the
\* draft, Cancel.
EditorOperation ==
  \/ EditSeries
  \/ handleCreateNewSeries
  \/ Settles("create")
  \/ DraftOperation
  \/ CancelEdit

\* C11: no operation of the editor but the commit changes the persisted
\* collection, so after Cancel it is what it was when the editor was opened;
\* the New button makes a draft and persists nothing.
C11_DiscardLeavesStoreUnchanged ==
  [][EditorOperation => UNCHANGED stored]_vars


\* The fields of a series as JSON text holds them.
SeriesFields(s) ==
  [id |-> s.id, name |-> s.name, steps |-> StringifySteps(s.steps)]

\* The persisted collection: empty when nothing is persisted.
StoredData == IF stored.present THEN stored.data ELSE <<>>

\* The persisted collection with the draft upserted: in the place of the series
\* of its id, or at the end.
UpsertData(data, draft) ==
  IF FindIndex(data, draft.id) >= 1
  THEN [data EXCEPT ![FindIndex(data, draft.id)] = SeriesFields(draft)]
  ELSE Append(data, SeriesFields(draft))

\* The awaited write of the Save button resolves.
CommitSucceeds ==
  pending # <<>> /\ Head(pending).op = "save" /\ StorageSettles

\* C12: a successful commit leaves the persisted collection as it was but for
\* the draft, which takes the place of the series of its id or is appended.
C12_CommitUpsertsTheDraft ==
  [][CommitSucceeds =>
       (stored'.present /\ stored'.data = UpsertData(StoredData, Head(pending).item))]_vars


\* The in-memory list as JSON text would hold it.
ListData(list) == Stringify(list).data

\* The awaited write of a commit, a create, a delete or a delete-step rejects.
WriteFails ==
  /\ pending # <<>>
  /\ Head(pending).op \in {"save", "create", "delete", "saveStep"}
  /\ StorageFails

\* C13: when the write of a store-mutating operation fails the persisted
\* collection is unchanged and the in-memory list equals it afterwards.
C13_FailedWriteKeepsListAndStore ==
  [][WriteFails => (UNCHANGED stored /\ ListData(series') = StoredData')]_vars


\* The awaited write of the Save button rejects.
CommitFails ==
  pending # <<>> /\ Head(pending).op = "save" /\ StorageFails

\* C14: a commit whose write fails leaves the editor with its draft as it was:
\* the draft is unchanged and still open, to be saved again.
C14_FailedCommitKeepsDraft ==
  [][CommitFails => (currentSeries' = currentSeries /\ modalVisible')]_vars


\* ------------------------------------------------------ loading
\* What AsyncStorage can hold under STORAGE_KEY when the screen mounts: nothing,
\* the JSON of a collection, the JSON of something else, or no JSON.
StoredItems ==
  {NoItem}
    \cup {[present |-> TRUE, text |-> "list", data |-> data] : data \in Libraries}
    \cup {[present |-> TRUE, text |-> "value", data |-> <<>>],
          [present |-> TRUE, text |-> "garbage", data |-> <<>>]}

\* The screen as mounted, over any stored item.
InitLoad ==
  /\ now = ClockJump
  /\ series = <<>>
  /\ currentSeries = NullSeries
  /\ isEditing = FALSE
  /\ isPlaying = FALSE
  /\ currentStep = NullStep
  /\ remainingTime = 0
  /\ modalVisible = FALSE
  /\ interval = FALSE
  /\ startTime = 0
  /\ armed = 0
  /\ hapticTimers = <<>>
  /\ lastAlert = ""
  /\ crashed = FALSE
  /\ session = NullSeries
  /\ alarms = <<>>
  /\ completions = 0
  /\ stopped = FALSE
  /\ restarted = FALSE
  /\ gestures = 0
  /\ faults = 0
  /\ isRunning = FALSE
  /\ time = 0
  /\ splits = <<>>
  /\ lastSplitTime = 0
  /\ stored \in StoredItems
  /\ pending = <<Suspended("load", <<>>, NullSeries)>>

\* The mount effect's load, then the user opens series and saves them.
NextLoad ==
  \/ Runtime(StorageSettles)
  \/ Faulty(StorageFails)
  \/ Runtime(DismissAlert)
  \/ User(EditSeries)
  \/ User(CancelEdit)
  \/ User(handleSaveSeries)

SpecLoad == InitLoad /\ [][NextLoad]_vars

\* The awaited getItem of loadSeries resolves.
LoadSettles ==
  pending # <<>> /\ Head(pending).op = "load" /\ StorageSettles

\* C15: a load that finds nothing persisted leaves the list empty; a load that
\* finds a text that is not the JSON of a list of series leaves the list empty
\* and raises the load error; no load makes the screen crash.
C15_LoadTreatsCorruptAsEmpty ==
  [][LoadSettles =>
       /\ ~crashed'
       /\ ~stored.present => (series' = <<>> /\ lastAlert' = "")
       /\ (stored.present /\ stored.text # "list") =>
            (series' = <<>> /\ lastAlert' = LoadFailedMsg)]_vars


\* The steps hold what the text of steps says, in its order.
SameSteps(steps, data) ==
  /\ Len(steps) = Len(data)
  /\ \A i \in 1..Len(steps) :
       /\ steps[i].id = data[i].id
       /\ steps[i].duration = data[i].duration
       /\ steps[i].name = data[i].name

\* The list holds what the text of a collection says, in its order.
SameCollection(list, data) ==
  /\ Len(list) = Len(data)
  /\ \A i \in 1..Len(list) :
       /\ list[i].id = data[i].id
       /\ list[i].name = data[i].name
       /\ SameSteps(list[i].steps, data[i].steps)

\* The Save button was pressed on the list as loaded: the list is what the
\* stored text holds and the list to write is the list itself.
SavingTheLoadedList ==
  /\ pending # <<>>
  /\ Head(pending).op = "save"
  /\ Head(pending).list = series
  /\ SameCollection(series, StoredData)

Cleared ==
  /\ ~stored.present
  /\ series = <<>>
  /\ currentSeries = NullSeries
  /\ ~isEditing

\* The awaited removeItem of the Clear All button resolves.
ClearSucceeds ==
  pending # <<>> /\ Head(pending).op = "clear" /\ StorageSettles

\* C17: a successful clearAll leaves nothing persisted, an empty list and no
\* draft; on a state that is so already it changes nothing.
C17_ClearAllIsIdempotent ==
  [][ClearSucceeds =>
       /\ Cleared'
       /\ Cleared => UNCHANGED <<series, stored, currentSeries, editVars, playVars,
                                 timerVars, hapticTimers, lastAlert, crashed>>]_vars

\* Clear All was pressed a second time, on what the first left.
C17_Witness ==
  /\ Cleared
  /\ pending # <<>> /\ Head(pending).op = "clear"
  /\ gestures = 2
  /\ faults = 0


\* ------------------------------------------------ unknown identifiers
\* Identifiers no series and no step has: a callback that lost a race with a
\* deletion carries one.
UnknownIds == {0}

UpdateUnknownStep ==
  /\ modalVisible
  /\ \E id \in UnknownIds : \E text \in StepNames : handleUpdateStep(id, "name", text)

RemoveUnknownStep == \E id \in UnknownIds : DeleteStepById(id)

DeleteUnknownSeries == \E id \in UnknownIds : handleDeleteSeries(id)

\* The user opens a series or a new one, adds a step, and callbacks arrive for
\* identifiers that are gone.
NextUnknownId ==
  \/ Runtime(StorageSettles)
  \/ User(EditSeries)
  \/ User(CancelEdit)
  \/ User(handleAddStep)
  \/ User(handleCreateNewSeries)
  \/ User(UpdateUnknownStep)
  \/ User(RemoveUnknownStep)
  \/ User(DeleteUnknownSeries)

SpecUnknownId == Init /\ [][NextUnknownId]_vars

\* An operation on an identifier that is gone, the awaited write of the two
\* that write included.
UnknownIdOperation ==
  \/ UpdateUnknownStep
  \/ RemoveUnknownStep
  \/ DeleteUnknownSeries
  \/ Settles("saveStep")
  \/ Settles("delete")

\* C18: an operation on a step id the draft has not, or on a series id the list
\* has not, changes neither the draft, the list nor the persisted collection
\* (objects may be new, what they hold is the same) and raises no error.
C18_UnknownIdIsNoOp ==
  [][UnknownIdOperation =>
       /\ SeriesFields(currentSeries') = SeriesFields(currentSeries)
       /\ ListData(series') = ListData(series)
       /\ StoredData' = StoredData
       /\ lastAlert' = lastAlert]_vars


\* No two steps of the sequence have the same id.
UniqueStepIds(steps) ==
  \A i, j \in 1..Len(steps) : i # j => steps[i].id # steps[j].id

\* C19: in the draft, in every series of the list and in every persisted
\* series, no two steps have the same id.
C19_StepIdsUnique ==
  /\ UniqueStepIds(currentSeries.steps)
  /\ \A i \in 1..Len(series) : UniqueStepIds(series[i].steps)
  /\ \A i \in 1..Len(StoredData) : UniqueStepIds(StoredData[i].steps)


\* C20: a tick that finds the duration of a step of the series played elapsed
\* makes the next step of that series current with its full duration remaining,
\* playback going on; after the last step playback is over, with no current step.
C20_BoundaryAdvancesOrEnds ==
  [][(BoundaryTick /\ SessionListed /\ SessionIndex >= 1) =>
       IF SessionIndex < Len(session.steps)
       THEN /\ isPlaying'
            /\ currentStep' = session.steps[SessionIndex + 1]
            /\ remainingTime' = session.steps[SessionIndex + 1].duration
       ELSE /\ ~isPlaying'
            /\ currentStep' = NullStep]_vars


\* C21: when a tick begins the alert of a step boundary, the alert of every
\* earlier boundary is over: no delayed repeat of it is still to fire.
C21_AlertsDoNotOverlap ==
  [][BoundaryTick => hapticTimers = <<>>]_vars


\* The awaited write of a commit, a create, a delete or a delete-step resolves.
WriteSucceeds ==
  /\ pending # <<>>
  /\ Head(pending).op \in {"save", "create", "delete", "saveStep"}
  /\ StorageSettles

\* C22: a write persists the whole list its handler computed when it was
\* called, and nothing else: what another handler wrote since then is not read
\* back and does not survive.
C22_WritePersistsListReadAtCall ==
  [][WriteSucceeds => SameCollection(Head(pending).list, StoredData')]_vars

\* No storage call failed and none is awaited, the series the New button
\* created is the draft and is in the list, and the persisted collection has it
\* not: a write that began before the create's write resolved came after it.
C22_Witness ==
  /\ faults = 0
  /\ pending = <<>>
  /\ isEditing
  /\ currentSeries # NullSeries
  /\ FindIndex(series, currentSeries.id) >= 1
  /\ stored.present
  /\ FindIndex(stored.data, currentSeries.id) = 0


\* --------------------------------------------------------- one step timer
\* C23: in every reachable state at most one step timer is armed: whatever
\* the interleaving of play, stop, ticks and state changes, the interval of
\* the previous run of the effect is cleared before the next one is armed.
C23_AtMostOneTimer ==
  /\ armed \in {0, 1}
  /\ interval <=> armed = 1

\* A session that passed a boundary and was re-armed by the editor opening.
C23_Witness ==
  /\ isPlaying
  /\ armed = 1
  /\ Len(alarms) >= 1
  /\ modalVisible


\* ------------------------------------------------ current step membership
\* C24: while playback is running the current step is one of the steps of the
\* series being played: findIndex of its id in that series' steps finds it,
\* whatever the editor, create, delete and clear-all operations did meanwhile.
C24_CurrentStepInSeries ==
  Running =>
    /\ currentSeries # NullSeries
    /\ FindIndex(currentSeries.steps, currentStep.id) >= 1


\* ------------------------------------------------------- start timestamp
\* C25: the start time of the current step is taken when play is pressed and
\* when a tick advances to the next step, and by nothing else: a step that
\* is not a press of play and leaves the same step current and running
\* leaves startTime as it was.
C25_StartTimeSetOncePerStep ==
  [][(Running /\ Running' /\ currentStep' = currentStep /\ ~PlaySeries)
       => startTime' = startTime]_vars


\* ------------------------------------------------------ malformed reorder
\* Step sequences that are not a rearrangement of the draft's steps: a step
\* left out, a step twice, a step under an id the draft has not.
MalformedOrders(steps) ==
  {Tail(steps), Append(steps, steps[1])}
    \cup {[steps EXCEPT ![1].id = id] : id \in UnknownIds}

\* onDragEnd hands handleReorderSteps such a sequence.
ReorderMalformed ==
  /\ modalVisible
  /\ Len(currentSeries.steps) >= 1
  /\ \E steps \in MalformedOrders(currentSeries.steps) : handleReorderSteps(steps)

\* The user opens a series, adds steps and drags them; some of the drags end
\* with a malformed sequence.
NextReorder ==
  \/ Runtime(StorageSettles)
  \/ User(EditSeries)
  \/ User(CancelEdit)
  \/ User(handleAddStep)
  \/ User(DragEnd)
  \/ User(ReorderMalformed)

SpecReorder == Init /\ [][NextReorder]_vars

\* C26: a reorder whose sequence is not a permutation of the draft's steps is
\* rejected: the draft holds what it held before.
C26_MalformedReorderRejected ==
  [][ReorderMalformed => SeriesFields(currentSeries') = SeriesFields(currentSeries)]_vars


\* --------------------------------------------------- durations of steps
NonNegativeSteps(steps) == \A i \in 1..Len(steps) : steps[i].duration >= 0

\* C27: every step of the draft and of every persisted series has a duration
\* of 0 or more, whatever was typed in the minutes and seconds fields.
C27_DurationsNonNegative ==
  /\ NonNegativeSteps(currentSeries.steps)
  /\ \A i \in 1..Len(StoredData) : NonNegativeSteps(StoredData[i].steps)


\* ----------------------------------------------------------- add step
\* C28: Add Step on a draft of k steps gives a draft of k + 1 steps: the first
\* k are the steps it had, in their order, and the last has duration 60000
\* and the name "Step k+1"; the rest of the draft is as it was.
C28_AddStepAppendsDefault ==
  [][handleAddStep =>
       LET k == Len(currentSeries.steps)
           steps == currentSeries'.steps
       IN /\ Len(steps) = k + 1
          /\ SubSeq(steps, 1, k) = currentSeries.steps
          /\ steps[k + 1].duration = 60000
          /\ steps[k + 1].name = "Step " \o ToString(k + 1)
          /\ currentSeries'.id = currentSeries.id
          /\ currentSeries'.name = currentSeries.name]_vars

\* The draft of a listed series of one step after Add Step: two steps.
C28_Witness ==
  /\ modalVisible
  /\ FindIndex(series, currentSeries.id) >= 1
  /\ Len(series[FindIndex(series, currentSeries.id)].steps) = 1
  /\ Len(currentSeries.steps) = 2
  /\ currentSeries.steps[1] = series[FindIndex(series, currentSeries.id)].steps[1]
  /\ currentSeries.steps[2].name = "Step 2"


\* -------------------------------------------------------- delete series
\* The awaited write of handleDeleteSeries resolves.
DeleteSucceeds ==
  /\ pending # <<>>
  /\ Head(pending).op = "delete"
  /\ StorageSettles

\* C29: the trash button takes the series of its id out of the list at once,
\* the other series staying as they are and in their order, and when its write
\* has resolved the same holds of the persisted collection, and the list still
\* has no series of that id; no Save is needed.
C29_DeleteRemovesExactlyThatSeries ==
  [][/\ \A i \in 1..Len(series) :
          handleDeleteSeries(series[i].id) =>
            ListData(series') = FilterOut(ListData(series), series[i].id)
     /\ DeleteSucceeds =>
          /\ StoredData' = FilterOut(StoredData, Head(pending).item.id)
          /\ FindIndex(series', Head(pending).item.id) = 0]_vars


\* ------------------------------------------------------- haptic failure
\* C30: a tick at a boundary whose haptic call fails goes on as one whose
\* haptic call succeeds: playAlarm was called for the step, the next step of
\* the series is current with its full duration and playback goes on, or,
\* after the last step, playback is over with 'Series Complete'; no error
\* is raised.
C30_HapticFailureKeepsPlayback ==
  [][(TimerTickHapticFails /\ currentStep.duration - (now - startTime) <= 0) =>
       LET steps == currentSeries.steps
           i == FindIndex(steps, currentStep.id)
       IN /\ alarms' = Append(alarms, currentStep)
          /\ IF i >= 1 /\ i < Len(steps)
             THEN /\ isPlaying'
                  /\ currentStep' = steps[i + 1]
                  /\ remainingTime' = steps[i + 1].duration
                  /\ completions' = completions
                  /\ lastAlert' = lastAlert
             ELSE /\ ~isPlaying'
                  /\ currentStep' = NullStep
                  /\ remainingTime' = 0
                  /\ completions' = completions + 1
                  /\ lastAlert' = CompleteMsg]_vars

\* Playback went on to the second step at a boundary whose haptic call failed:
\* play was the only gesture, the step has just begun and no repeat is due.
C30_Witness ==
  /\ gestures = 1
  /\ faults = 1
  /\ isPlaying
  /\ Len(alarms) = 1
  /\ Len(session.steps) = 2
  /\ currentStep = session.steps[2]
  /\ startTime = now
  /\ hapticTimers = <<>>


\* ------------------------------------------------- play after completion
\* Play pressed on a series that has steps when the session before has
\* completed.
PlayAfterCompletion ==
  /\ completions >= 1
  /\ ~isPlaying
  /\ \E i \in 1..Len(series) : Len(series[i].steps) >= 1 /\ handlePlaySeries(series[i])

\* C31: play on a series that has steps, pressed when a session has completed,
\* starts a session as from idle: the first step of the series is current with
\* its full duration remaining and its timer armed now, and that session, if
\* neither stopped nor deleted, calls playAlarm once per step, in the order of
\* the steps, and raises one 'Series Complete', after the last playAlarm.
C31_PlayAfterCompletionIsFresh ==
  [][/\ PlayAfterCompletion =>
          /\ isPlaying'
          /\ currentStep' = session'.steps[1]
          /\ remainingTime' = session'.steps[1].duration
          /\ interval'
          /\ startTime' = now
          /\ alarms' = <<>>
          /\ completions' = 0
     /\ restarted' => C1_EveryStepNotifiedThenComplete']_vars


\* ---------------------------------------------------- series identifiers
\* No two series of the sequence have the same id.
UniqueSeriesIds(list) ==
  \A i, j \in 1..Len(list) : i # j => list[i].id # list[j].id

\* C32: no two series of the list have the same id, and no two series of the
\* persisted collection.
C32_SeriesIdsUnique ==
  /\ UniqueSeriesIds(series)
  /\ UniqueSeriesIds(StoredData)


\* ------------------------------------------------------------ read model
DigitChar(d) ==
  CASE d = 0 -> "0" [] d = 1 -> "1" [] d = 2 -> "2" [] d = 3 -> "3" [] d = 4 -> "4"
    [] d = 5 -> "5" [] d = 6 -> "6" [] d = 7 -> "7" [] d = 8 -> "8" [] d = 9 -> "9"

RECURSIVE NaturalToString(_)
NaturalToString(n) ==
  IF n < 10 THEN <<DigitChar(n)>>
  ELSE NaturalToString(n \div 10) \o <<DigitChar(n % 10)>>

\* Number.prototype.toString() of an integer: the characters of its numeral.
NumberToString(n) ==
  IF n < 0 THEN <<"-">> \o NaturalToString(0 - n) ELSE NaturalToString(n)

RECURSIVE PadStart(_, _, _)
\* String.prototype.padStart(targetLength, padString), padString one character
PadStart(text, targetLength, padString) ==
  IF Len(text) >= targetLength THEN text
  ELSE PadStart(<<padString>> \o text, targetLength, padString)

\* A variant of formatTime whose seconds are those of the whole time.
formatTimeWithoutModulo(ms) ==
  PadStart(NumberToString(FloorDiv(ms, MsPerMinute)), 2, "0") \o <<":">>
    \o PadStart(NumberToString(FloorDiv(ms, MsPerSecond)), 2, "0")

formatTime(ms) ==
  LET minutes == FloorDiv(ms, MsPerMinute)
      seconds == FloorDiv(Remainder(ms, MsPerMinute), MsPerSecond)
  IN PadStart(NumberToString(minutes), 2, "0") \o <<":">>
       \o PadStart(NumberToString(seconds), 2, "0")

RECURSIVE TotalDuration(_)
\* steps.reduce((total, step) => total + step.duration, 0)
TotalDuration(steps) ==
  IF steps = <<>> THEN 0
  ELSE TotalDuration(SubSeq(steps, 1, Len(steps) - 1)) + steps[Len(steps)].duration

\* The text of the countdown of the playing card.
timerText == IF currentStep # NullStep THEN formatTime(remainingTime) ELSE <<"0", "0", ":", "0", "0">>

\* The text of the duration of the card of a series of the list.
seriesDuration(s) == formatTime(TotalDuration(s.steps))


\* Durations a step can have been given: whole seconds and minutes, the last
\* millisecond before a minute, and 100 minutes.
ShownDurations ==
  {0, MsPerSecond, MsPerMinute - 1, MsPerMinute, 59 * MsPerMinute + 59 * MsPerSecond,
   100 * MsPerMinute - 1, 100 * MsPerMinute}

ShownLibraries ==
  UNION {{<<SeriesData(1, [k \in 1..n |-> StepData(1, k, d[k])])>> :
            d \in [1..n -> ShownDurations]} : n \in 1..MaxSteps}

\* The screen at rest with one series loaded.
InitShown ==
  /\ now = ClockJump
  /\ currentSeries = NullSeries
  /\ isEditing = FALSE
  /\ isPlaying = FALSE
  /\ currentStep = NullStep
  /\ remainingTime = 0
  /\ modalVisible = FALSE
  /\ interval = FALSE
  /\ startTime = 0
  /\ armed = 0
  /\ hapticTimers = <<>>
  /\ lastAlert = ""
  /\ crashed = FALSE
  /\ session = NullSeries
  /\ alarms = <<>>
  /\ completions = 0
  /\ stopped = FALSE
  /\ restarted = FALSE
  /\ gestures = 0
  /\ faults = 0
  /\ isRunning = FALSE
  /\ time = 0
  /\ splits = <<>>
  /\ lastSplitTime = 0
  /\ pending = <<>>
  /\ \E data \in ShownLibraries :
       /\ stored = [present |-> TRUE, text |-> "list", data |-> data]
       /\ series = ParseList(data, {0}, {0})

\* The series is played and stopped while time passes; the screen shows the
\* countdown and the total of the series.
NextShown ==
  \/ Runtime(AdvanceClock)
  \/ Runtime(TimerTick)
  \/ Runtime(DelayedHaptic)
  \/ Runtime(DismissAlert)
  \/ User(PlaySeries)
  \/ User(handleStopSeries)

SpecShown == InitShown /\ [][NextShown]_vars

\* The times on screen with their texts: the countdown and the totals.
ShownTimes ==
  (IF currentStep # NullStep THEN {<<remainingTime, timerText>>} ELSE {})
    \cup {<<TotalDuration(series[i].steps), seriesDuration(series[i])>> : i \in 1..Len(series)}

AllDigits(text) == \A i \in 1..Len(text) : DigitValue(text[i]) >= 0

\* text is a field of minutes, a colon and a field of two digits of seconds,
\* the seconds in 0..59, that together are the whole seconds of ms.
MinutesAndSeconds(text, ms) ==
  \E c \in 1..Len(text) :
    LET minutes == SubSeq(text, 1, c - 1)
        seconds == SubSeq(text, c + 1, Len(text))
    IN /\ text[c] = ":"
       /\ Len(minutes) >= 2 /\ AllDigits(minutes)
       /\ Len(seconds) = 2 /\ AllDigits(seconds)
       /\ ParseInt(seconds).value \in 0..59
       /\ ParseInt(minutes).value * 60 + ParseInt(seconds).value = ms \div 1000

\* C33: every time of 0 ms or more on screen, the countdown and the total of a
\* series (the sum of the durations of its steps), is shown as two digits of
\* minutes, a colon and two digits of seconds in 0..59 that make up the whole
\* seconds of the time.
C33_TimeShownAsMMSS ==
  \A shown \in ShownTimes :
    shown[1] >= 0 => (MinutesAndSeconds(shown[2], shown[1]) /\ Len(shown[2]) = 5)

\* C33 as amended: the minutes are shown in two digits below 100 minutes and
\* in as many digits as the number has from 100 minutes on.
C33_TimeShownAsMinutesSeconds ==
  \A shown \in ShownTimes :
    shown[1] >= 0 =>
      /\ MinutesAndSeconds(shown[2], shown[1])
      /\ Len(shown[2]) = 5 <=> shown[1] < 100 * MsPerMinute

\* After a boundary the countdown shows a step of 100 minutes.
C33_Witness ==
  /\ Len(alarms) >= 1
  /\ currentStep # NullStep
  /\ remainingTime = 100 * MsPerMinute
  /\ timerText = <<"1", "0", "0", ":", "0", "0">>


\* ------------------------------------------------------ list and store
\* C34: when no storage call is awaited (and none has failed), the list holds
\* what the persisted collection holds, an absent collection holding nothing.
C34_ListEqualsStoreAtRest ==
  (pending = <<>> /\ faults = 0 /\ ~crashed) => ListData(series) = StoredData


\* --------------------------------------------------- playback terminates
\* The screen with at most one series in the list.
InitBuild == Init /\ Len(series) <= 1

\* A gesture of the user who builds a series and plays it.
Builder(A) ==
  /\ ~crashed
  /\ lastAlert = ""
  /\ gestures < MaxBuilding
  /\ gestures' = gestures + 1
  /\ UNCHANGED <<faults, stopwatchVars>>
  /\ A

\* The user opens a series, adds steps, saves it and plays it.
NextBuild ==
  \/ Runtime(AdvanceClock)
  \/ Runtime(TimerTick)
  \/ Runtime(DelayedHaptic)
  \/ Runtime(StorageSettles)
  \/ Runtime(DismissAlert)
  \/ Builder(EditSeries)
  \/ Builder(handleAddStep)
  \/ Builder(handleSaveSeries)
  \/ Builder(PlaySeries)

SpecBuild == InitBuild /\ [][NextBuild]_vars

\* C35: playback never stays on a step with no timer armed: while it is
\* running the effect's interval is armed, so that under fair ticks and an
\* advancing clock every step ends.
C35_RunningHasTimer ==
  Running => interval


\* ------------------------------------------- delete of another series
\* C36: a session whose series is still in the list, not stopped, goes on
\* after the trash button of another series was pressed (which leaves no
\* current series): playAlarm is called once per step, in the order of the
\* steps, 'Series Complete' is raised once, after the last of them, and
\* until then the session runs.
C36_DeleteOfOtherSeriesKeepsSession ==
  (session # NullSeries /\ ~stopped /\ SessionListed /\ PositiveSteps(session)
     /\ currentSeries = NullSeries) =>
    /\ IsPrefix(alarms, session.steps)
    /\ completions <= 1
    /\ (completions = 1 => alarms = session.steps)
    /\ (~isPlaying => completions = 1)


\* ------------------------------------------------- play while running
\* Play pressed on a series that has steps while a session is running.
PlayWhileRunning ==
  /\ Running
  /\ \E i \in 1..Len(series) : Len(series[i].steps) >= 1 /\ handlePlaySeries(series[i])

\* C37: play pressed while a session is running starts a fresh session: the
\* first step of the series is current, its full duration remains and its
\* timer is armed with the start time now, also when that step was current
\* already.
C37_PlayWhileRunningRestarts ==
  [][PlayWhileRunning =>
       /\ isPlaying'
       /\ currentStep' = session'.steps[1]
       /\ remainingTime' = session'.steps[1].duration
       /\ interval'
       /\ startTime' = now]_vars


\* ------------------------------------------------------ duration fields
\* Texts typed in the minutes and seconds fields: nothing, a letter, numbers.
FieldTexts == {<<>>, <<"x">>, <<"2">>, <<"1", "0">>}

\* The number a typed text stands for: 0 when it is no number.
Typed(text) ==
  CASE text = <<"2">> -> 2
    [] text = <<"1", "0">> -> 10
    [] OTHER -> 0

TypeMinutes ==
  /\ modalVisible
  /\ \E i \in 1..Len(currentSeries.steps) : \E text \in FieldTexts : onChangeMinutes(i, text)

TypeSeconds ==
  /\ modalVisible
  /\ \E i \in 1..Len(currentSeries.steps) : \E text \in FieldTexts : onChangeSeconds(i, text)

\* The user opens a series, adds steps and types in their duration fields.
NextFields ==
  \/ Runtime(StorageSettles)
  \/ Builder(EditSeries)
  \/ Builder(CancelEdit)
  \/ Builder(handleAddStep)
  \/ Builder(TypeMinutes)
  \/ Builder(TypeSeconds)

SpecFields == InitBuild /\ [][NextFields]_vars

\* C38: typing s in the seconds field of a step sets its duration to its whole
\* minutes plus s seconds; typing m in its minutes field sets it to m minutes,
\* with no seconds left; a text that is no number counts as 0.
C38_DurationFields ==
  [][modalVisible =>
       \A i \in 1..Len(currentSeries.steps) : \A text \in FieldTexts :
         /\ onChangeMinutes(i, text) =>
              currentSeries'.steps[i].duration = Typed(text) * 60000
         /\ onChangeSeconds(i, text) =>
              currentSeries'.steps[i].duration =
                (currentSeries.steps[i].duration \div 60000) * 60000 + Typed(text) * 1000]_vars

\* A step of 1 minute after 2 was typed in its seconds field, another field
\* having been typed in as well.
C38_Witness ==
  /\ modalVisible
  /\ gestures >= 3
  /\ \E i \in 1..Len(currentSeries.steps) :
       currentSeries.steps[i].duration = MsPerMinute + 2 * MsPerSecond


\* ------------------------------------------------------------ stopwatch
\* The state of the series screen, which the stopwatch screen leaves alone.
seriesScreenVars ==
  <<now, series, currentSeries, isEditing, isPlaying, currentStep, remainingTime,
    modalVisible, interval, startTime, armed, hapticTimers, stored, pending, lastAlert,
    crashed, session, alarms, completions, stopped, restarted, gestures, faults>>

\* The callback of setInterval(..., 10), armed while isRunning.
StopwatchTick ==
  /\ isRunning
  /\ time < MaxTicks * StopwatchStep
  /\ time' = time + StopwatchStep
  /\ UNCHANGED <<isRunning, splits, lastSplitTime, seriesScreenVars>>

\* The Start / Stop button.
handleStartStop ==
  /\ isRunning' = ~isRunning
  /\ UNCHANGED <<time, splits, lastSplitTime, seriesScreenVars>>

\* The values of time a press can find in its render: the state's, or the one
\* before the last tick when that tick's render is still to come.
RenderedTimes ==
  {t \in {time - StopwatchStep, time} : t >= 0 /\ t >= lastSplitTime}

\* A variant of the split that does not move lastSplitTime.
handleSplitResetKeepingLastSplit ==
  /\ IF isRunning
     THEN /\ Len(splits) < MaxSplits
          /\ \E t \in RenderedTimes :
               splits' = Append(splits, [time |-> t, splitTime |-> t - lastSplitTime])
          /\ UNCHANGED <<isRunning, time, lastSplitTime>>
     ELSE /\ isRunning' = FALSE
          /\ time' = 0
          /\ splits' = <<>>
          /\ lastSplitTime' = 0
  /\ UNCHANGED seriesScreenVars

\* The Split / Reset button.
handleSplitReset ==
  /\ IF isRunning
     THEN /\ Len(splits) < MaxSplits
          /\ \E t \in RenderedTimes :
               /\ splits' = Append(splits, [time |-> t, splitTime |-> t - lastSplitTime])
               /\ lastSplitTime' = t
          /\ UNCHANGED <<isRunning, time>>
     ELSE /\ isRunning' = FALSE
          /\ time' = 0
          /\ splits' = <<>>
          /\ lastSplitTime' = 0
  /\ UNCHANGED seriesScreenVars

NextStopwatch ==
  \/ StopwatchTick
  \/ handleStartStop
  \/ handleSplitReset

\* The stopwatch screen as mounted, nothing stored for the series screen.
InitStopwatch == InitLoad /\ stored = NoItem

SpecStopwatch == InitStopwatch /\ [][NextStopwatch]_vars

RECURSIVE SumOfSplitTimes(_)
SumOfSplitTimes(list) ==
  IF list = <<>> THEN 0 ELSE Head(list).splitTime + SumOfSplitTimes(Tail(list))

\* The splits recorded agree with the times of the stopwatch.
SplitsConsistent ==
  /\ lastSplitTime <= time
  /\ \A i \in 1..(Len(splits) - 1) : splits[i].time <= splits[i + 1].time
  /\ SumOfSplitTimes(splits) = lastSplitTime

\* C39: the time of the last split is never after the stopwatch's time, the
\* total times of the splits never decrease down the list, and the split
\* times add up to the time of the last split; the Split / Reset button
\* records a split and resets nothing while the stopwatch runs, and sets the
\* time to 0, the splits to none and the last split time to 0 while it is
\* stopped.
C39_StopwatchSplits ==
  [][/\ SplitsConsistent
     /\ SplitsConsistent'
     /\ handleSplitReset =>
          IF isRunning
          THEN /\ Len(splits') = Len(splits) + 1
               /\ SubSeq(splits', 1, Len(splits)) = splits
               /\ splits'[Len(splits')].time = lastSplitTime'
               /\ time' = time
               /\ isRunning'
          ELSE /\ time' = 0
               /\ splits' = <<>>
               /\ lastSplitTime' = 0
               /\ ~isRunning']_vars

\* Stopped after two splits at different times, time having gone on since.
C39_Witness ==
  /\ ~isRunning
  /\ Len(splits) = 2
  /\ splits[1].time > 0
  /\ splits[2].splitTime > 0
  /\ time > lastSplitTime

====
